---- MODULE Spec2Model ----
(***************************************************************************)
(* The REST dispatch core of OrthancFramework/Sources/RestApi/RestApi.cpp: *)
(* RestApi::Register, RestApi::Handle (content negotiation, live dispatch  *)
(* through HttpHandlerVisitor, method-not-allowed fallback) and            *)
(* RestApi::GenerateOpenApiDocumentation (OpenApiVisitor).                 *)
(* RestApiHierarchy (the trie), Toolbox and RestApiOutput are not part of  *)
(* the sources at hand; they are modelled from the specification.          *)
(***************************************************************************)
EXTENDS Naturals, Sequences, FiniteSets, TLC

VARIABLES phase, root_, request, response, visited, openApi, previous

vars == <<phase, root_, request, response, visited, openApi, previous>>

liveVars == <<request, response>>

docVars == <<visited, openApi, previous>>

-----------------------------------------------------------------------------
(* Bounds of the model *)

MaxRoutes == 3

MaxAcceptRoutes == 1

MaxUriLen == 2

MaxAcceptLen == 3

-----------------------------------------------------------------------------
(* HTTP methods, media types, handlers *)

HttpMethod_Get == "HttpMethod_Get"

HttpMethod_Post == "HttpMethod_Post"

HttpMethod_Put == "HttpMethod_Put"

HttpMethod_Delete == "HttpMethod_Delete"

HttpMethods == {HttpMethod_Get, HttpMethod_Post, HttpMethod_Put, HttpMethod_Delete}

MIME_XML == "application/xml"

MIME_JSON == "application/json"

ORTHANC_ENABLE_PUGIXML == 1

\* What a registered handler does when it is invoked:
\*   "ok"            answers (live) and documents itself (documentation mode)
\*   "throws"        raises OrthancException
\*   "badcast"       raises boost::bad_lexical_cast
\*   "undocumented"  answers, but its documentation cannot be formatted
Behaviours == {"ok", "throws", "badcast", "undocumented"}

LiveBehaviours == {"ok", "throws"}

NoHandler == "NoHandler"

\* The handler a call object selects in a resource: a RestApiGetCall runs the
\* GET handler, a RestApiPostCall the POST handler, and so on.
CallMethod(callType) ==
  CASE callType = "RestApiGetCall" -> HttpMethod_Get
    [] callType = "RestApiPostCall" -> HttpMethod_Post
    [] callType = "RestApiDeleteCall" -> HttpMethod_Delete
    [] callType = "RestApiPutCall" -> HttpMethod_Put

-----------------------------------------------------------------------------
(* The trie of resources (RestApiHierarchy), from the specification *)

CaptureNames == <<"...">>

Capture(name) == "{" \o name \o "}"

\* The registered templates: /a, /a/* and /a/{...}
Templates ==
  { [uri |-> <<"a">>, trailing |-> FALSE],
    [uri |-> <<"a">>, trailing |-> TRUE],
    [uri |-> <<"a", Capture("...")>>, trailing |-> FALSE] }

EmptyResource == [m \in HttpMethods |-> NoHandler]

HasHandler(resource, method) == resource[method] # NoHandler

IsEmpty(resource) == \A m \in HttpMethods : ~HasHandler(resource, m)

ResourceAt(root, uri, trailing) ==
  LET t == [uri |-> uri, trailing |-> trailing]
  IN  IF t \in Templates THEN root[t] ELSE EmptyResource

RouteCount(root) ==
  Cardinality({p \in Templates \X HttpMethods : HasHandler(root[p[1]], p[2])})

\* A node of the trie handed to a visitor: the resource (exact or trailing) at a
\* template, the captured arguments and the leftover segments.
Match(node, hasTrailing, components, trailing) ==
  [template |-> [uri |-> node, trailing |-> hasTrailing],
   hasTrailing |-> hasTrailing, components |-> components, trailing |-> trailing]

\* DispatchTrie resolution order: the nodes offered to the visitor for a request
\* URI, depth first: the exact node when the segments are exhausted, else the
\* literal child, then the named-capture children, and as a last resort the
\* trailing wildcard of the node, which takes every remaining segment.
RECURSIVE Walk(_, _, _, _)
RECURSIVE WalkCaptures(_, _, _, _, _)
Walk(root, uri, node, components) ==
  LET level == Len(node)
      exact == IF level = Len(uri) /\ ~IsEmpty(ResourceAt(root, node, FALSE))
               THEN <<Match(node, FALSE, components, <<>>)>>
               ELSE <<>>
      children == IF level < Len(uri)
                  THEN Walk(root, uri, Append(node, uri[level + 1]), components)
                       \o WalkCaptures(root, uri, node, components, 1)
                  ELSE <<>>
      wildcard == IF ~IsEmpty(ResourceAt(root, node, TRUE))
                  THEN <<Match(node, TRUE, components,
                               SubSeq(uri, level + 1, Len(uri)))>>
                  ELSE <<>>
  IN  exact \o children \o wildcard

WalkCaptures(root, uri, node, components, i) ==
  IF i > Len(CaptureNames) THEN <<>>
  ELSE Walk(root, uri, Append(node, Capture(CaptureNames[i])),
            (CaptureNames[i] :> uri[Len(node) + 1]) @@ components)
       \o WalkCaptures(root, uri, node, components, i + 1)

\* AcceptedMethods: the methods with a handler at the terminal node of the same
\* structural walk, whatever the requested method.
GetAcceptedMethods(root, uri) ==
  LET nodes == Walk(root, uri, <<>>, <<>>)
  IN  IF nodes = <<>> THEN {}
      ELSE {m \in HttpMethods : HasHandler(root[nodes[1].template], m)}

-----------------------------------------------------------------------------
(* Live dispatch: HttpHandlerVisitor *)

LiveRaises(behaviour) == behaviour \in {"throws", "badcast"}

\* resource.Handle(call): runs the handler the call type selects; the handler's
\* error, if any, leaves through the caller.
ResourceHandle(root, match, callType) ==
  LET method == CallMethod(callType)
      raised == LiveRaises(root[match.template][method])
  IN  [calls |-> <<[template |-> match.template, method |-> method]>>,
       raised |-> raised,
       ret |-> ~raised]

NotDispatched == [calls |-> <<>>, raised |-> FALSE, ret |-> FALSE]

\* Mutant of HttpHandlerVisitor_Visit: the PUT case builds the call of the POST case.
HttpHandlerVisitor_Visit_PutAsPost(root, match, method_) ==
  IF HasHandler(root[match.template], method_)
  THEN CASE method_ = HttpMethod_Get -> ResourceHandle(root, match, "RestApiGetCall")
         [] method_ = HttpMethod_Post -> ResourceHandle(root, match, "RestApiPostCall")
         [] method_ = HttpMethod_Delete -> ResourceHandle(root, match, "RestApiDeleteCall")
         [] method_ = HttpMethod_Put -> ResourceHandle(root, match, "RestApiPostCall")
         [] OTHER -> NotDispatched
  ELSE NotDispatched

HttpHandlerVisitor_Visit(root, match, method_) ==
  IF HasHandler(root[match.template], method_)
  THEN CASE method_ = HttpMethod_Get -> ResourceHandle(root, match, "RestApiGetCall")
         [] method_ = HttpMethod_Post -> ResourceHandle(root, match, "RestApiPostCall")
         [] method_ = HttpMethod_Delete -> ResourceHandle(root, match, "RestApiDeleteCall")
         [] method_ = HttpMethod_Put -> ResourceHandle(root, match, "RestApiPutCall")
         [] OTHER -> NotDispatched
  ELSE NotDispatched

\* root_.LookupResource(uri, visitor): the visitor is offered the nodes in order
\* until it accepts one; an error raised by a visit ends the lookup.
RECURSIVE LookupFrom(_, _, _, _, _)
LookupFrom(root, nodes, i, method_, visits) ==
  IF i > Len(nodes)
  THEN [matched |-> FALSE, raised |-> FALSE, visits |-> visits]
  ELSE LET v == HttpHandlerVisitor_Visit(root, nodes[i], method_)
           seen == Append(visits, [match |-> nodes[i], calls |-> v.calls,
                                   raised |-> v.raised, ret |-> v.ret])
       IN  IF v.raised THEN [matched |-> FALSE, raised |-> TRUE, visits |-> seen]
           ELSE IF v.ret THEN [matched |-> TRUE, raised |-> FALSE, visits |-> seen]
           ELSE LookupFrom(root, nodes, i + 1, method_, seen)

LookupResource(root, uri, method_) ==
  LookupFrom(root, Walk(root, uri, <<>>, <<>>), 1, method_, <<>>)

-----------------------------------------------------------------------------
(* Method-not-allowed fallback: the Allow header *)

AddMethod(target, method) ==
  IF Len(target) > 0 THEN target \o "," \o method ELSE method

\* Mutant of MethodsToString: the methods in the order of the visitor's switch.
MethodsToString_SwitchOrder(methods) ==
  LET s0 == ""
      s1 == IF HttpMethod_Get \in methods THEN AddMethod(s0, "GET") ELSE s0
      s2 == IF HttpMethod_Post \in methods THEN AddMethod(s1, "POST") ELSE s1
      s3 == IF HttpMethod_Delete \in methods THEN AddMethod(s2, "DELETE") ELSE s2
      s4 == IF HttpMethod_Put \in methods THEN AddMethod(s3, "PUT") ELSE s3
  IN  s4

MethodsToString(methods) ==
  LET s0 == ""
      s1 == IF HttpMethod_Get \in methods THEN AddMethod(s0, "GET") ELSE s0
      s2 == IF HttpMethod_Post \in methods THEN AddMethod(s1, "POST") ELSE s1
      s3 == IF HttpMethod_Put \in methods THEN AddMethod(s2, "PUT") ELSE s2
      s4 == IF HttpMethod_Delete \in methods THEN AddMethod(s3, "DELETE") ELSE s3
  IN  s4

-----------------------------------------------------------------------------
(* Content negotiation on the Accept header *)

Separator == ";"

\* An Accept value is a sequence of pieces of text: the separator character or a
\* run of other characters.
AcceptPieces == {MIME_XML, MIME_JSON, Separator, "text/html"}

RECURSIVE SeqsUpTo(_, _)
SeqsUpTo(S, n) ==
  IF n = 0 THEN {<<>>}
  ELSE LET shorter == SeqsUpTo(S, n - 1)
       IN  shorter \cup {Append(q, x) : q \in shorter, x \in S}

AcceptValues == SeqsUpTo(AcceptPieces, MaxAcceptLen)

\* The request headers: no Accept header, or one with a value.
NoAccept == <<>>

AllAccepts == {NoAccept} \cup {<<v>> : v \in AcceptValues}

\* Toolbox::TokenizeString(result, value, ';'): the text between separators,
\* neither trimmed nor filtered.
RECURSIVE TokenizeFrom(_, _, _, _)
TokenizeFrom(value, i, current, result) ==
  IF i > Len(value) THEN Append(result, current)
  ELSE IF value[i] = Separator
       THEN TokenizeFrom(value, i + 1, "", Append(result, current))
       ELSE TokenizeFrom(value, i + 1, current \o value[i], result)

TokenizeString(value) == TokenizeFrom(value, 1, "", <<>>)

\* Mutant of ScanAccepted: the loop stops at the first recognized token.
RECURSIVE ScanAccepted_FirstWins(_, _, _)
ScanAccepted_FirstWins(accepted, i, convert) ==
  IF i > Len(accepted) THEN convert
  ELSE IF accepted[i] = MIME_XML THEN TRUE
  ELSE IF accepted[i] = MIME_JSON THEN FALSE
  ELSE ScanAccepted_FirstWins(accepted, i + 1, convert)

\* The loop over the accepted types: each recognized token sets the flag.
RECURSIVE ScanAccepted(_, _, _)
ScanAccepted(accepted, i, convert) ==
  IF i > Len(accepted) THEN convert
  ELSE LET afterXml == IF accepted[i] = MIME_XML THEN TRUE ELSE convert
           afterJson == IF accepted[i] = MIME_JSON THEN FALSE ELSE afterXml
       IN  ScanAccepted(accepted, i + 1, afterJson)

\* RestApiOutput starts in JSON mode (convertJsonToXml_ is false).
DefaultConvertJsonToXml == FALSE

Negotiate(accept) ==
  IF ORTHANC_ENABLE_PUGIXML = 1 /\ accept # NoAccept
  THEN ScanAccepted(TokenizeString(accept[1]), 1, DefaultConvertJsonToXml)
  ELSE DefaultConvertJsonToXml

-----------------------------------------------------------------------------
(* RestApi::Handle *)

Segments == {"a", "b"}

Uris == SeqsUpTo(Segments, MaxUriLen)

NoRequest == [uri |-> <<>>, method |-> "none", accept |-> NoAccept]

NoResponse ==
  [ret |-> "none", finalized |-> FALSE, allow |-> <<>>,
   convertJsonToXml |-> DefaultConvertJsonToXml, visits |-> <<>>]

\* Mutant of HandleResult: a request with a method no handler serves is left to
\* the caller, as if the URI were unknown.
HandleResult_NotFoundOnWrongMethod(root, uri, method, accept) ==
  LET convert == Negotiate(accept)
      found == LookupResource(root, uri, method)
  IN  IF found.raised
      THEN [ret |-> "raised", finalized |-> FALSE, allow |-> <<>>,
            convertJsonToXml |-> convert, visits |-> found.visits]
      ELSE IF found.matched
      THEN [ret |-> "true", finalized |-> TRUE, allow |-> <<>>,
            convertJsonToXml |-> convert, visits |-> found.visits]
      ELSE [ret |-> "false", finalized |-> FALSE, allow |-> <<>>,
            convertJsonToXml |-> convert, visits |-> found.visits]

\* Mutant of HandleResult: the handler's error is caught and the request falls
\* back to the accepted methods.
HandleResult_Swallow(root, uri, method, accept) ==
  LET convert == Negotiate(accept)
      found == LookupResource(root, uri, method)
      methods == GetAcceptedMethods(root, uri)
  IN  IF found.matched
      THEN [ret |-> "true", finalized |-> TRUE, allow |-> <<>>,
            convertJsonToXml |-> convert, visits |-> found.visits]
      ELSE IF methods = {}
      THEN [ret |-> "false", finalized |-> FALSE, allow |-> <<>>,
            convertJsonToXml |-> convert, visits |-> found.visits]
      ELSE [ret |-> "true", finalized |-> FALSE,
            allow |-> <<MethodsToString(methods)>>,
            convertJsonToXml |-> convert, visits |-> found.visits]

\* What a request leaves behind: the value returned ("true", "false", or "raised"
\* when the handler's error leaves Handle), whether the output was finalized,
\* the Allow headers sent with a method-not-allowed answer, the output mode and
\* the visits of the live-dispatch visitor.
HandleResult(root, uri, method, accept) ==
  LET convert == Negotiate(accept)
      found == LookupResource(root, uri, method)
      methods == GetAcceptedMethods(root, uri)
  IN  IF found.raised
      THEN [ret |-> "raised", finalized |-> FALSE, allow |-> <<>>,
            convertJsonToXml |-> convert, visits |-> found.visits]
      ELSE IF found.matched
      THEN [ret |-> "true", finalized |-> TRUE, allow |-> <<>>,
            convertJsonToXml |-> convert, visits |-> found.visits]
      ELSE IF methods = {}
      THEN [ret |-> "false", finalized |-> FALSE, allow |-> <<>>,
            convertJsonToXml |-> convert, visits |-> found.visits]
      ELSE [ret |-> "true", finalized |-> FALSE,
            allow |-> <<MethodsToString(methods)>>,
            convertJsonToXml |-> convert, visits |-> found.visits]

Handle(uri, method, accept) ==
  /\ phase = "serving"
  /\ response = NoResponse
  /\ request' = [uri |-> uri, method |-> method, accept |-> accept]
  /\ response' = HandleResult(root_, uri, method, accept)
  /\ UNCHANGED <<phase, root_, docVars>>

-----------------------------------------------------------------------------
(* Documentation generation: OpenApiVisitor *)

\* Toolbox::FlattenUri: "/" followed by the segments joined with "/".
RECURSIVE JoinFrom(_, _)
JoinFrom(uri, i) ==
  IF i > Len(uri) THEN ""
  ELSE uri[i] \o (IF i < Len(uri) THEN "/" ELSE "") \o JoinFrom(uri, i + 1)

FlattenUri(uri) == "/" \o JoinFrom(uri, 1)

\* The deepest registered template.
MaxTemplateDepth ==
  CHOOSE n \in 0..8 : /\ \A t \in Templates : Len(t.uri) <= n
                      /\ \E t \in Templates : Len(t.uri) = n

Literals == <<"a">>

\* ExploreAll: every node holding a handler, once, in pre-order; the captures on
\* the way are bound to empty placeholder values.
RECURSIVE Explore(_, _, _)
RECURSIVE ExploreChildren(_, _, _, _, _)
Explore(root, node, components) ==
  LET exact == IF ~IsEmpty(ResourceAt(root, node, FALSE))
               THEN <<Match(node, FALSE, components, <<>>)>>
               ELSE <<>>
      wildcard == IF ~IsEmpty(ResourceAt(root, node, TRUE))
                  THEN <<Match(node, TRUE, components, <<>>)>>
                  ELSE <<>>
      children == IF Len(node) < MaxTemplateDepth
                  THEN ExploreChildren(root, node, components, Literals, FALSE)
                       \o ExploreChildren(root, node, components, CaptureNames, TRUE)
                  ELSE <<>>
  IN  exact \o wildcard \o children

ExploreChildren(root, node, components, names, captures) ==
  IF names = <<>> THEN <<>>
  ELSE (IF captures
        THEN Explore(root, Append(node, Capture(Head(names))),
                     (Head(names) :> "") @@ components)
        ELSE Explore(root, Append(node, Head(names)), components))
       \o ExploreChildren(root, node, components, Tail(names), captures)

ExploreAllResources(root) == Explore(root, <<>>, <<>>)

\* paths_: a JSON object keyed by path, each member keyed by method name.
EmptyObject == <<>>

IsMember(object, key) == key \in DOMAIN object

SetMember(paths, path, key, v) ==
  IF IsMember(paths, path)
  THEN [paths EXCEPT ![path] = (key :> v) @@ paths[path]]
  ELSE (path :> (key :> v)) @@ paths

\* OpenApiVisitor::OpenApiVisitor
NewOpenApiVisitor ==
  [paths_ |-> EmptyObject, successPathsCount_ |-> 0, totalPathsCount_ |-> 0]

\* The dry run of a handler in documentation mode, resource.Handle(call) &&
\* call.GetDocumentation().FormatOpenApi(v, uriArgumentsNames): the error it
\* raises, if any, and else whether it produced a fragment.
DryRun(root, match, callType, uriArgumentsNames) ==
  LET method == CallMethod(callType)
      behaviour == root[match.template][method]
  IN  [exception |-> CASE behaviour = "throws" -> "OrthancException"
                       [] behaviour = "badcast" -> "bad_lexical_cast"
                       [] OTHER -> "none",
       ok |-> behaviour = "ok",
       v |-> [handler |-> [template |-> match.template, method |-> method],
              parameters |-> uriArgumentsNames]]

\* The catch clauses around the dry run.
Caught(exception) == exception \in {"OrthancException", "bad_lexical_cast"}

\* One of the four per-method blocks of Visit. `state` carries the visitor, the
\* probes made so far and the error leaving Visit, if any.
ProbeMethod(state, root, match, path, uriArgumentsNames, method, callType, key) ==
  IF state.raised # "none" \/ ~HasHandler(root[match.template], method)
  THEN state
  ELSE LET run == DryRun(root, match, callType, uriArgumentsNames)
           counted == [state.visitor EXCEPT !.totalPathsCount_ = @ + 1]
           ok == run.exception = "none" /\ run.ok
           probe == [template |-> match.template, path |-> path, method |-> method,
                     outcome |-> IF ok THEN "documented"
                                 ELSE IF run.exception # "none" THEN run.exception
                                 ELSE "undocumented"]
       IN  IF run.exception # "none" /\ ~Caught(run.exception)
           THEN [visitor |-> counted, probes |-> Append(state.probes, probe),
                 raised |-> run.exception]
           ELSE IF ok
           THEN [visitor |-> [counted EXCEPT
                                !.paths_ = SetMember(@, path, key, run.v),
                                !.successPathsCount_ = @ + 1],
                 probes |-> Append(state.probes, probe), raised |-> "none"]
           ELSE [visitor |-> counted, probes |-> Append(state.probes, probe),
                 raised |-> "none"]

\* Mutant of OpenApiVisitor_Visit: a path already in the map is not refused.
OpenApiVisitor_Visit_NoDuplicateCheck(v, root, match) ==
  LET path == FlattenUri(match.template.uri)
                \o (IF match.hasTrailing THEN "/{...}" ELSE "")
      uriArgumentsNames == DOMAIN match.components
                             \cup (IF match.hasTrailing THEN {"..."} ELSE {})
      s0 == [visitor |-> v, probes |-> <<>>, raised |-> "none"]
      s1 == ProbeMethod(s0, root, match, path, uriArgumentsNames,
                        HttpMethod_Get, "RestApiGetCall", "get")
      s2 == ProbeMethod(s1, root, match, path, uriArgumentsNames,
                        HttpMethod_Post, "RestApiPostCall", "post")
      s3 == ProbeMethod(s2, root, match, path, uriArgumentsNames,
                        HttpMethod_Delete, "RestApiDeleteCall", "delete")
      s4 == ProbeMethod(s3, root, match, path, uriArgumentsNames,
                        HttpMethod_Put, "RestApiPutCall", "put")
  IN  [visitor |-> s4.visitor, probes |-> s4.probes, raised |-> s4.raised,
       ret |-> s4.raised = "none"]

\* OpenApiVisitor::Visit: the visitor after the visit, the probes made, the error
\* leaving Visit ("none" when it returns) and the value returned.
OpenApiVisitor_Visit(v, root, match) ==
  LET path == FlattenUri(match.template.uri)
                \o (IF match.hasTrailing THEN "/{...}" ELSE "")
      uriArgumentsNames == DOMAIN match.components
                             \cup (IF match.hasTrailing THEN {"..."} ELSE {})
      s0 == [visitor |-> v, probes |-> <<>>, raised |-> "none"]
      s1 == ProbeMethod(s0, root, match, path, uriArgumentsNames,
                        HttpMethod_Get, "RestApiGetCall", "get")
      s2 == ProbeMethod(s1, root, match, path, uriArgumentsNames,
                        HttpMethod_Post, "RestApiPostCall", "post")
      s3 == ProbeMethod(s2, root, match, path, uriArgumentsNames,
                        HttpMethod_Delete, "RestApiDeleteCall", "delete")
      s4 == ProbeMethod(s3, root, match, path, uriArgumentsNames,
                        HttpMethod_Put, "RestApiPutCall", "put")
  IN  IF IsMember(v.paths_, path)
      THEN [visitor |-> v, probes |-> <<>>, raised |-> "InternalError", ret |-> FALSE]
      ELSE [visitor |-> s4.visitor, probes |-> s4.probes, raised |-> s4.raised,
            ret |-> s4.raised = "none"]

\* boost::math::iround of the quotient num/den of two naturals: the nearest
\* integer, halves away from zero.
IRound(num, den) == (2 * num + den) \div (2 * den)

Coverage(success, total) ==
  LET divisor == IF total = 0 THEN 1 ELSE total
  IN  IRound(100 * success, divisor)

NoDocument == [openapi |-> "", paths |-> EmptyObject]

\* What a pass leaves behind: how it ended ("done", or "raised" when an error
\* left GenerateOpenApiDocumentation), the error, the document written to the
\* target and the counts and coverage reported. A pass that raises writes and
\* reports nothing.
NoPass == [ended |-> "none", error |-> "none", document |-> NoDocument,
           success |-> 0, total |-> 0, coverage |-> 0]

\* root_.ExploreAllResources(visitor, ...): the visitor visits the nodes in
\* order; an error raised by a visit, or a visit returning false, ends the
\* exploration. `log` keeps, for every visit, the node, the outcome, the probes
\* made and the visitor after it.
RECURSIVE ExploreFrom(_, _, _, _, _)
ExploreFrom(root, nodes, i, v, log) ==
  IF i > Len(nodes) THEN [visitor |-> v, log |-> log, raised |-> "none"]
  ELSE LET After(r) ==
             LET seen == Append(log, [match |-> nodes[i], raised |-> r.raised,
                                      ret |-> r.ret, probes |-> r.probes,
                                      before |-> v, visitor |-> r.visitor])
             IN  IF r.raised # "none" \/ ~r.ret
                 THEN [visitor |-> r.visitor, log |-> seen, raised |-> r.raised]
                 ELSE ExploreFrom(root, nodes, i + 1, r.visitor, seen)
       IN  CHOOSE run \in {After(r) : r \in {OpenApiVisitor_Visit(v, root, nodes[i])}} :
             TRUE

\* Mutant of GenerateOpenApiDocumentation: the visitor of the last pass is kept.
GenerateOpenApiDocumentation_KeptVisitor ==
  /\ phase = "serving"
  /\ LET run == ExploreFrom(root_, ExploreAllResources(root_), 1,
                            IF visited = <<>> THEN NewOpenApiVisitor
                            ELSE visited[Len(visited)].visitor, <<>>)
         success == run.visitor.successPathsCount_
         total == run.visitor.totalPathsCount_
     IN  /\ visited' = run.log
         /\ previous' = openApi
         /\ openApi' =
              IF run.raised # "none"
              THEN [NoPass EXCEPT !.ended = "raised", !.error = run.raised]
              ELSE [ended |-> "done", error |-> "none",
                    document |-> [openapi |-> "3.0.0",
                                  paths |-> run.visitor.paths_],
                    success |-> success, total |-> total,
                    coverage |-> Coverage(success, total)]
  /\ UNCHANGED <<phase, root_, liveVars>>

GenerateOpenApiDocumentation ==
  /\ phase = "serving"
  /\ LET run == ExploreFrom(root_, ExploreAllResources(root_), 1,
                            NewOpenApiVisitor, <<>>)
         success == run.visitor.successPathsCount_
         total == run.visitor.totalPathsCount_
     IN  /\ visited' = run.log
         /\ previous' = openApi
         /\ openApi' =
              IF run.raised # "none"
              THEN [NoPass EXCEPT !.ended = "raised", !.error = run.raised]
              ELSE [ended |-> "done", error |-> "none",
                    document |-> [openapi |-> "3.0.0",
                                  paths |-> run.visitor.paths_],
                    success |-> success, total |-> total,
                    coverage |-> Coverage(success, total)]
  /\ UNCHANGED <<phase, root_, liveVars>>

-----------------------------------------------------------------------------
(* RestApi::Register and the two phases of the route table *)

Register(path, method, handler) ==
  /\ phase = "setup"
  /\ ~HasHandler(root_[path], method)
  /\ root_' = [root_ EXCEPT ![path][method] = handler]
  /\ UNCHANGED <<phase, liveVars, docVars>>

StartServing ==
  /\ phase = "setup"
  /\ phase' = "serving"
  /\ UNCHANGED <<root_, liveVars, docVars>>

\* The transport layer hands every request a fresh output: each request makes
\* one pass through Handle.
NextRequest ==
  /\ phase = "serving"
  /\ response # NoResponse
  /\ request' = NoRequest
  /\ response' = NoResponse
  /\ UNCHANGED <<phase, root_, docVars>>

Init ==
  /\ phase = "setup"
  /\ root_ = [t \in Templates |-> EmptyResource]
  /\ request = NoRequest
  /\ response = NoResponse
  /\ visited = <<>>
  /\ openApi = NoPass
  /\ previous = NoPass

RegisterLive ==
  /\ RouteCount(root_) < MaxRoutes
  /\ \E path \in Templates, method \in HttpMethods, handler \in LiveBehaviours :
       Register(path, method, handler)

HandleLive ==
  \E uri \in Uris, method \in HttpMethods : Handle(uri, method, NoAccept)

Next == RegisterLive \/ StartServing \/ HandleLive \/ NextRequest

Spec == Init /\ [][Next]_vars

\* Content negotiation: requests for /a with every Accept value, over route tables
\* of well-behaved handlers.
AcceptUri == <<"a">>

RegisterAccept ==
  /\ RouteCount(root_) < MaxAcceptRoutes
  /\ \E path \in Templates, method \in HttpMethods : Register(path, method, "ok")

HandleAccept ==
  \E method \in HttpMethods, accept \in AllAccepts : Handle(AcceptUri, method, accept)

NextAccept == RegisterAccept \/ StartServing \/ HandleAccept \/ NextRequest

SpecAccept == Init /\ [][NextAccept]_vars


\* Documentation generation over route tables of handlers of every behaviour.
RegisterDoc ==
  /\ RouteCount(root_) < MaxRoutes
  /\ \E path \in Templates, method \in HttpMethods, handler \in Behaviours :
       Register(path, method, handler)

NextDoc == RegisterDoc \/ StartServing \/ GenerateOpenApiDocumentation

SpecDoc == Init /\ [][NextDoc]_vars

-----------------------------------------------------------------------------
(* Properties of live dispatch, checked under Spec *)

IsCapture(segment) == \E i \in DOMAIN CaptureNames : segment = Capture(CaptureNames[i])

\* A request URI is an instantiation of a template: literal segments are equal,
\* a capture takes any one segment, a trailing wildcard takes the rest.
Instantiates(uri, template) ==
  /\ IF template.trailing THEN Len(uri) >= Len(template.uri)
                          ELSE Len(uri) = Len(template.uri)
  /\ \A i \in DOMAIN template.uri :
       i <= Len(uri) /\ (IsCapture(template.uri[i]) \/ template.uri[i] = uri[i])

\* Some method has a handler at the request's URI.
Served == \E t \in Templates : Instantiates(request.uri, t) /\ ~IsEmpty(root_[t])

\* The handlers invoked for the request, in order.
RECURSIVE CallsFrom(_, _)
CallsFrom(visits, i) ==
  IF i > Len(visits) THEN <<>> ELSE visits[i].calls \o CallsFrom(visits, i + 1)

Calls == CallsFrom(response.visits, 1)

Handled == request.method # "none"

ThreeOutcomes ==
  /\ Calls # <<>> =>
       response.ret = "true" /\ response.finalized /\ response.allow = <<>>
  /\ (Calls = <<>> /\ ~Served) =>
       response.ret = "false" /\ ~response.finalized /\ response.allow = <<>>
  /\ (Calls = <<>> /\ Served) =>
       response.ret = "true" /\ Len(response.allow) = 1
  /\ response.ret = "false" <=> (Calls = <<>> /\ ~Served)

\* C1 as stated: every request ends in one of the three outcomes (matched:
\* finalized and true; no match and no accepted method: false and nothing sent;
\* no match and accepted methods: one method-not-allowed answer and true).
C1_EveryRequestThreeOutcomes ==
  Handled => response.ret \in {"true", "false"} /\ ThreeOutcomes

\* C1 as amended: every request whose dispatched handler does not raise ends in
\* one of the three outcomes, and Handle returns false exactly when no handler was
\* dispatched and no method has a handler at the URI; a request whose handler
\* raises ends with the error leaving Handle.
C1_ThreeOutcomesUnlessRaised ==
  Handled =>
    /\ response.ret \in {"true", "false", "raised"}
    /\ response.ret = "raised" <=>
         \E i \in DOMAIN Calls : LiveRaises(root_[Calls[i].template][Calls[i].method])
    /\ response.ret # "raised" => ThreeOutcomes

C1_Witness ==
  /\ Handled /\ response.ret = "true" /\ Len(response.allow) = 1
  /\ Calls = <<>> /\ Served

\* Each visit of the live-dispatch visitor: the handler of the requested method
\* and no other, once, when the node has one, and no handler otherwise.
VisitDispatches(visit, returnsTrue) ==
  IF HasHandler(root_[visit.match.template], request.method)
  THEN /\ visit.calls = <<[template |-> visit.match.template,
                           method |-> request.method]>>
       /\ returnsTrue
  ELSE visit.calls = <<>> /\ ~visit.ret /\ ~visit.raised

\* Resolving an instantiation of a registered (template, method) pair runs one
\* handler, registered for that method at a template the URI instantiates; the
\* node of the URI itself comes first.
ResolvesToRegistered ==
  (\E t \in Templates : Instantiates(request.uri, t)
                          /\ HasHandler(root_[t], request.method)) =>
    /\ Len(Calls) = 1
    /\ Calls[1].method = request.method
    /\ Instantiates(request.uri, Calls[1].template)
    /\ HasHandler(root_[Calls[1].template], request.method)
    /\ LET exact == [uri |-> request.uri, trailing |-> FALSE]
       IN  (exact \in Templates /\ HasHandler(root_[exact], request.method))
             => Calls[1].template = exact

\* C2 as stated: a visit with method m invokes the node's handler for m exactly
\* once and returns true if the node has one, and else invokes none and returns
\* false.
C2_VisitInvokesAndReturnsTrue ==
  Handled =>
    /\ ResolvesToRegistered
    /\ \A i \in DOMAIN response.visits :
         VisitDispatches(response.visits[i],
                         response.visits[i].ret /\ ~response.visits[i].raised)

\* C2 as amended: a visit with method m invokes the node's handler for m exactly
\* once if the node has one, and returns true unless that handler raises, in
\* which case the error leaves Visit; else it invokes no handler and returns
\* false. At most one handler runs per request.
C2_VisitInvokesTheHandler ==
  Handled =>
    /\ ResolvesToRegistered
    /\ Len(Calls) <= 1
    /\ \A i \in DOMAIN response.visits :
         LET visit == response.visits[i]
             behaviour == root_[visit.match.template][request.method]
         IN  VisitDispatches(visit, /\ visit.raised = LiveRaises(behaviour)
                                    /\ visit.ret = ~LiveRaises(behaviour))

\* A PUT request is dispatched at a node that also serves POST, after a node
\* without a PUT handler was visited and declined.
C2_Witness ==
  /\ Handled /\ request.method = HttpMethod_Put
  /\ Len(response.visits) = 2
  /\ response.visits[1].calls = <<>>
  /\ response.visits[2].ret
  /\ HasHandler(root_[response.visits[2].match.template], HttpMethod_Post)

\* The Allow value expected for a set of methods: the names of its members in
\* the order GET, POST, PUT, DELETE, separated by commas.
CanonicalOrder ==
  <<[method |-> HttpMethod_Get, name |-> "GET"],
    [method |-> HttpMethod_Post, name |-> "POST"],
    [method |-> HttpMethod_Put, name |-> "PUT"],
    [method |-> HttpMethod_Delete, name |-> "DELETE"]>>

RECURSIVE JoinNames(_, _)
JoinNames(entries, i) ==
  IF i > Len(entries) THEN ""
  ELSE entries[i].name \o (IF i < Len(entries) THEN "," ELSE "")
         \o JoinNames(entries, i + 1)

ExpectedAllow(methods) ==
  LET Member(entry) == entry.method \in methods
  IN  JoinNames(SelectSeq(CanonicalOrder, Member), 1)

\* C3: with only GET registered at a URI, a POST request is not dispatched and is
\* answered method-not-allowed with Allow exactly "GET"; every Allow header sent
\* lists the accepted methods of the URI, and for every non-empty set of methods
\* the Allow value is the comma-separated list of exactly its members, each once,
\* in the order GET, POST, PUT, DELETE.
C3_AllowHeader ==
  /\ \A methods \in SUBSET HttpMethods :
       methods # {} => MethodsToString(methods) = ExpectedAllow(methods)
  /\ Handled =>
       /\ response.allow # <<>> =>
            /\ Calls = <<>>
            /\ GetAcceptedMethods(root_, request.uri) # {}
            /\ response.allow =
                 <<ExpectedAllow(GetAcceptedMethods(root_, request.uri))>>
       /\ (/\ request.method = HttpMethod_Post
           /\ \A t \in Templates :
                Instantiates(request.uri, t) =>
                  \A m \in HttpMethods : HasHandler(root_[t], m) <=> m = HttpMethod_Get
           /\ Served)
            => /\ Calls = <<>>
               /\ response.ret = "true"
               /\ response.allow = <<"GET">>

C3_Witness ==
  /\ Handled /\ request.method = HttpMethod_Post /\ request.uri = <<"a">>
  /\ GetAcceptedMethods(root_, request.uri) = {HttpMethod_Get}
  /\ response.allow = <<"GET">>

\* C7: when the handler selected for the request raises, the error leaves Handle:
\* no value is returned, the output is not finalized, nothing falls back to the
\* accepted methods and no other handler runs.
C7_HandlerErrorPropagates ==
  Handled =>
    \A i \in DOMAIN response.visits :
      LET visit == response.visits[i]
      IN  (visit.calls # <<>>
           /\ LiveRaises(root_[visit.calls[1].template][visit.calls[1].method]))
            => /\ response.ret = "raised"
               /\ ~response.finalized
               /\ response.allow = <<>>
               /\ Len(Calls) = 1
               /\ i = Len(response.visits)

\* The handler at the second node visited raises, while the node also serves
\* another method.
C7_Witness ==
  /\ Handled /\ response.ret = "raised"
  /\ Len(response.visits) = 2
  /\ \E m \in HttpMethods :
       m # request.method /\ HasHandler(root_[response.visits[2].match.template], m)

-----------------------------------------------------------------------------
(* Content negotiation, checked under SpecAccept *)

\* The positions of the Accept value holding a recognized token: a media type
\* standing alone between separators or the ends of the value.
Recognized(value) ==
  {i \in DOMAIN value :
     /\ value[i] \in {MIME_XML, MIME_JSON}
     /\ (i = 1 \/ value[i - 1] = Separator)
     /\ (i = Len(value) \/ value[i + 1] = Separator)}

Last(S) == CHOOSE i \in S : \A j \in S : j <= i

ExpectedXmlMode(accept) ==
  /\ accept # NoAccept
  /\ Recognized(accept[1]) # {}
  /\ accept[1][Last(Recognized(accept[1]))] = MIME_XML

\* C4: the output mode is decided by the last token of the Accept value, split
\* on ';', that equals the XML or the JSON media type: application/json;
\* application/xml sets XML, application/xml;application/json sets JSON, and
\* without the header or without a recognized token the mode stays JSON.
C4_LastRecognizedTokenWins ==
  Handled =>
    /\ response.convertJsonToXml = ExpectedXmlMode(request.accept)
    /\ request.accept = <<<<MIME_JSON, Separator, MIME_XML>>>>
         => response.convertJsonToXml
    /\ request.accept = <<<<MIME_XML, Separator, MIME_JSON>>>>
         => ~response.convertJsonToXml
    /\ request.accept = NoAccept => ~response.convertJsonToXml

C4_Witness ==
  /\ Handled
  /\ request.accept = <<<<MIME_JSON, Separator, MIME_XML>>>>
  /\ response.convertJsonToXml

-----------------------------------------------------------------------------
(* Properties of documentation generation, checked under SpecDoc *)

Routes == {p \in Templates \X HttpMethods : HasHandler(root_[p[1]], p[2])}

\* N registered (path, method) pairs, of which M dry-run successfully.
RegisteredPairs == Cardinality(Routes)

DocumentedPairs == Cardinality({p \in Routes : root_[p[1]][p[2]] = "ok"})

\* round(100 * m / n): the integer nearest to the quotient, halves upwards.
Rounded(m, n) ==
  CHOOSE c \in 0..100 : (2 * c - 1) * n <= 200 * m /\ 200 * m < (2 * c + 1) * n

PassEnded == openApi.ended # "none"

\* C5 as stated: a pass over N registered pairs of which M dry-run successfully
\* ends with totalCount = N and successCount = M and reports the coverage
\* round(100 * M / N), N = 0 counting as 1.
C5_PassReportsCounts ==
  PassEnded =>
    /\ openApi.ended = "done"
    /\ openApi.total = RegisteredPairs
    /\ openApi.success = DocumentedPairs
    /\ openApi.coverage =
         Rounded(DocumentedPairs,
                 IF RegisteredPairs = 0 THEN 1 ELSE RegisteredPairs)

\* The probes of the pass, in order.
RECURSIVE ProbesFrom(_, _)
ProbesFrom(log, i) ==
  IF i > Len(log) THEN <<>> ELSE log[i].probes \o ProbesFrom(log, i + 1)

Probes == ProbesFrom(visited, 1)

ProbeRaised(probe) == probe.outcome \in {"OrthancException", "bad_lexical_cast"}

MethodKey(method) ==
  CASE method = HttpMethod_Get -> "get"
    [] method = HttpMethod_Post -> "post"
    [] method = HttpMethod_Delete -> "delete"
    [] method = HttpMethod_Put -> "put"

\* The (path, method name) entries of a path map.
Entries(paths) ==
  UNION {{<<path, key>> : key \in DOMAIN paths[path]} : path \in DOMAIN paths}

\* C6 as stated: when the dry run of a handler raises, that entry alone is
\* omitted and counted in totalCount only, the other methods of the node and all
\* other nodes are still probed, and the pass completes without raising.
C6_RaisingProbeIsContained ==
  (PassEnded /\ \E i \in DOMAIN Probes : ProbeRaised(Probes[i])) =>
    /\ openApi.ended = "done"
    /\ Len(visited) = Len(ExploreAllResources(root_))
    /\ Len(Probes) = RegisteredPairs
    /\ openApi.total = RegisteredPairs
    /\ openApi.success = DocumentedPairs
    /\ \A i \in DOMAIN Probes :
         ProbeRaised(Probes[i]) =>
           \A e \in Entries(openApi.document.paths) :
             openApi.document.paths[e[1]][e[2]].handler
               # [template |-> Probes[i].template, method |-> Probes[i].method]

\* C8 as stated: every visit of the documentation visitor completes and returns
\* true, whatever was visited before.
C8_VisitAlwaysReturnsTrue ==
  \A i \in DOMAIN visited : visited[i].raised = "none" /\ visited[i].ret

\* C9: two passes over an unchanged route table end alike (the same document,
\* counts and coverage); every pass starts from an empty visitor, so that nothing
\* accumulated by a pass is seen by the next; a pass leaves the route table as
\* it is.
C9_PassesAreIdempotent ==
  [][/\ previous'.ended # "none" => openApi' = previous'
     /\ visited' # <<>> => visited'[1].before = NewOpenApiVisitor
     /\ <<visited, openApi, previous>>' # <<visited, openApi, previous>>
          => root_' = root_]_vars

C9_Witness ==
  /\ previous.ended = "done"
  /\ openApi = previous
  /\ openApi.success >= 2
  /\ openApi.total > openApi.success

\* The fragment stored for an entry comes from a handler registered at a visited
\* node of that path, for the method of that name, whose dry run succeeds.
EntryIsEarned(log, i, path, key) ==
  LET fragment == log[i].visitor.paths_[path][key]
      handler == fragment.handler
  IN  /\ \E j \in 1..i :
           /\ log[j].match.template = handler.template
           /\ FlattenUri(log[j].match.template.uri)
                \o (IF log[j].match.hasTrailing THEN "/{...}" ELSE "") = path
      /\ MethodKey(handler.method) = key
      /\ HasHandler(root_[handler.template], handler.method)
      /\ root_[handler.template][handler.method] = "ok"

\* C10: after every visit of a pass, the path map holds successCount entries,
\* each for a method with a handler at a visited node whose probe succeeded,
\* successCount <= totalCount, and the entries stored before the visit are still
\* there, unchanged.
C10_PathMapInvariant ==
  \A i \in DOMAIN visited :
    LET before == visited[i].before
        after == visited[i].visitor
    IN  /\ Cardinality(Entries(after.paths_)) = after.successPathsCount_
        /\ after.successPathsCount_ <= after.totalPathsCount_
        /\ \A e \in Entries(after.paths_) : EntryIsEarned(visited, i, e[1], e[2])
        /\ \A e \in Entries(before.paths_) :
             /\ e \in Entries(after.paths_)
             /\ after.paths_[e[1]][e[2]] = before.paths_[e[1]][e[2]]

\* A visit finds its path already documented by an earlier visit, after an entry
\* was stored and a probe failed.
C10_Witness ==
  /\ Len(visited) >= 2
  /\ visited[Len(visited)].raised = "InternalError"
  /\ visited[Len(visited)].visitor.successPathsCount_ >= 1
  /\ visited[Len(visited)].visitor.totalPathsCount_
       > visited[Len(visited)].visitor.successPathsCount_

====
